---------------------------- MODULE Spec2Model ----------------------------
(***************************************************************************)
(* Model of the fuzz harness fuzz/main.rs:                                 *)
(*                                                                         *)
(*     fuzz_target!(|data: &[u8]| {                                        *)
(*         if let Ok(s) = std::str::from_utf8(data) {                      *)
(*             let _ = parse(s); // should never panic / segfault          *)
(*         }                                                               *)
(*     });                                                                 *)
(*                                                                         *)
(* The engine (libFuzzer) calls the closure once per input, possibly from  *)
(* several workers.  A byte is a number in 0..255, a byte buffer and a     *)
(* &str are sequences of bytes (from_utf8 validates and reinterprets the   *)
(* same bytes, it copies and converts nothing).                            *)
(***************************************************************************)
EXTENDS Integers, Sequences, FiniteSets, TLC

VARIABLES
    pc,      \* pc[w]: where worker w's invocation of the closure stands
    data,    \* data[w]: the bytes behind the borrow `data: &[u8]`
    input,   \* input[w]: the bytes the engine handed over (its own record)
    s,       \* s[f]: the binding `s` of the closure frame f (None: unbound)
    result,  \* result[w]: the value of `parse(s)` not yet dropped
    trace,   \* trace[w]: calls made by, and parser answers to, the invocation
    expect   \* expect[w]: trace of the run the engine is replaying, or None

vars == <<pc, data, input, s, result, trace, expect>>

None == [none |-> TRUE]

Some(x) == [some |-> x]

\* the workers the engine runs
Workers == DOMAIN pc

-----------------------------------------------------------------------------
(* Bounds and inputs *)

\* longest input of the single-worker specifications
MaxLen == 4

\* number of workers of the parallel specification
NumWorkers == 2

\* bytes the engine mutates inputs from: ASCII 'A', the lowest and highest
\* continuation bytes, a byte that never begins a sequence (0xC0), and the
\* leads 0xC2, 0xE0, 0xED, 0xF0, 0xF4 whose second byte is range-restricted
FuzzBytes == {65, 128, 191, 192, 194, 224, 237, 240, 244}

RECURSIVE SeqsOf(_, _)
SeqsOf(S, n) ==
    IF n = 0 THEN {<<>>}
    ELSE LET shorter == SeqsOf(S, n - 1)
         IN  shorter \cup {Append(q, x) : q \in {r \in shorter : Len(r) = n - 1}, x \in S}

\* every input of at most MaxLen bytes
Corpus == SeqsOf(FuzzBytes, MaxLen)

\* seed inputs of the parallel specification: empty, ASCII, a 2-byte
\* character, a truncated 2-byte character, a stray continuation byte
ParCorpus == {<<>>, <<65>>, <<194, 128>>, <<194>>, <<128>>}

-----------------------------------------------------------------------------
(* std::str::from_utf8 *)

\* core::str::validations::utf8_char_width (UTF8_CHAR_WIDTH table)
utf8_char_width(b) ==
    IF b < 128 THEN 1
    ELSE IF b < 194 THEN 0
    ELSE IF b < 224 THEN 2
    ELSE IF b < 240 THEN 3
    ELSE IF b < 245 THEN 4
    ELSE 0

\* `next!() as i8 >= -64` is false: the byte is a continuation byte 0x80..0xBF
utf8_is_cont_byte(b) == b >= 128 /\ b <= 191

\* the (first, second) pairs accepted for a 3-byte sequence
utf8_second_of_3(first, second) ==
    \/ first = 224 /\ second >= 160 /\ second <= 191
    \/ first >= 225 /\ first <= 236 /\ second >= 128 /\ second <= 191
    \/ first = 237 /\ second >= 128 /\ second <= 159
    \/ first >= 238 /\ first <= 239 /\ second >= 128 /\ second <= 191

\* the (first, second) pairs accepted for a 4-byte sequence
utf8_second_of_4(first, second) ==
    \/ first = 240 /\ second >= 144 /\ second <= 191
    \/ first >= 241 /\ first <= 243 /\ second >= 128 /\ second <= 191
    \/ first = 244 /\ second >= 128 /\ second <= 143

\* whether a well-formed character of the given width starts at v[index]
\* (a missing byte is next!()'s err!(None))
utf8_char_at(v, index, width) ==
    LET has(k) == index + k <= Len(v)
        at(k) == v[index + k]
    IN  CASE width = 1 -> TRUE
          [] width = 2 -> has(1) /\ utf8_is_cont_byte(at(1))
          [] width = 3 -> /\ has(1) /\ utf8_second_of_3(v[index], at(1))
                          /\ has(2) /\ utf8_is_cont_byte(at(2))
          [] width = 4 -> /\ has(1) /\ utf8_second_of_4(v[index], at(1))
                          /\ has(2) /\ utf8_is_cont_byte(at(2))
                          /\ has(3) /\ utf8_is_cont_byte(at(3))
          [] OTHER -> FALSE

\* run_utf8_validation from `index` on: Len(v) when all of v is valid, else
\* the number of bytes before the first invalid character (valid_up_to)
RECURSIVE run_utf8_validation(_, _)
run_utf8_validation(v, index) ==
    IF index > Len(v) THEN Len(v)
    ELSE LET width == utf8_char_width(v[index])
         IN  IF utf8_char_at(v, index, width)
             THEN run_utf8_validation(v, index + width)
             ELSE index - 1

\* from_utf8_unchecked in place of from_utf8: every buffer is taken as text
from_utf8_unchecked(v) == [ok |-> TRUE, str |-> v, valid_up_to |-> Len(v)]

\* a validator that knows 1- to 3-byte characters only
from_utf8_bmp_only(v) ==
    LET three(i) == utf8_char_width(v[i]) < 4
        upto == run_utf8_validation(v, 1)
    IN  IF upto = Len(v) /\ \A i \in 1..Len(v) : three(i)
        THEN [ok |-> TRUE, str |-> v, valid_up_to |-> Len(v)]
        ELSE [ok |-> FALSE, str |-> <<>>, valid_up_to |-> 0]

\* std::str::from_utf8: Ok(the same bytes as &str) or Err(Utf8Error)
from_utf8(v) ==
    LET upto == run_utf8_validation(v, 1)
    IN  IF upto = Len(v)
        THEN [ok |-> TRUE, str |-> v, valid_up_to |-> upto]
        ELSE [ok |-> FALSE, str |-> <<>>, valid_up_to |-> upto]

-----------------------------------------------------------------------------
(* The decoded text as a sequence of Unicode scalar values *)

\* a Unicode scalar value (a Rust `char`): a code point that is no surrogate
IsScalar(cp) == cp >= 0 /\ cp <= 1114111 /\ ~(cp >= 55296 /\ cp <= 57343)

\* char::encode_utf8: the shortest-form encoding of a scalar value
Utf8Encode(cp) ==
    IF cp < 128 THEN <<cp>>
    ELSE IF cp < 2048 THEN <<192 + (cp \div 64), 128 + (cp % 64)>>
    ELSE IF cp < 65536
         THEN <<224 + (cp \div 4096), 128 + ((cp \div 64) % 64), 128 + (cp % 64)>>
    ELSE <<240 + (cp \div 262144), 128 + ((cp \div 4096) % 64),
           128 + ((cp \div 64) % 64), 128 + (cp % 64)>>

\* the value the payload bits of an n-byte sequence b spell
PayloadValue(b) ==
    CASE Len(b) = 1 -> b[1]
      [] Len(b) = 2 -> (b[1] - 192) * 64 + (b[2] - 128)
      [] Len(b) = 3 -> (b[1] - 224) * 4096 + (b[2] - 128) * 64 + (b[3] - 128)
      [] OTHER -> (b[1] - 240) * 262144 + (b[2] - 128) * 4096
                  + (b[3] - 128) * 64 + (b[4] - 128)

\* b is the encoding of one scalar value
EncodesScalar(b) ==
    /\ Len(b) >= 1 /\ Len(b) <= 4
    /\ IsScalar(PayloadValue(b))
    /\ Utf8Encode(PayloadValue(b)) = b

\* the scalar values of a text, or <<-1>> when b is no concatenation of
\* encodings of scalar values
RECURSIVE Chars(_)
Chars(b) ==
    IF b = <<>> THEN <<>>
    ELSE LET ns == {n \in 1..4 : n <= Len(b) /\ EncodesScalar(SubSeq(b, 1, n))}
         IN  IF ns = {} THEN <<-1>>
             ELSE LET n == CHOOSE k \in ns : TRUE
                      rest == Chars(SubSeq(b, n + 1, Len(b)))
                  IN  IF rest = <<-1>> THEN rest
                      ELSE <<PayloadValue(SubSeq(b, 1, n))>> \o rest

\* b is strictly valid UTF-8: the encoding of a sequence of scalar values
WellFormedUtf8(b) == Chars(b) # <<-1>>

\* String::from_iter(chars): the encoding of a sequence of scalar values
RECURSIVE EncodeAll(_)
EncodeAll(cs) ==
    IF cs = <<>> THEN <<>> ELSE Utf8Encode(Head(cs)) \o EncodeAll(Tail(cs))

-----------------------------------------------------------------------------
(* The invocation *)

Event(e, a, r) == [ev |-> e, arg |-> a, res |-> r]

\* the arguments of the calls of `parse` in a trace, in order
RECURSIVE ParseArgs(_)
ParseArgs(t) ==
    IF t = <<>> THEN <<>>
    ELSE IF Head(t).ev = "parse" THEN <<Head(t).arg>> \o ParseArgs(Tail(t))
    ELSE ParseArgs(Tail(t))

\* the parser call of the trace ended in a fault
Faulted(t) == \E i \in 1..Len(t) : t[i].ev = "fault"

\* the parser call of the trace returned a value
Returned(t) == \E i \in 1..Len(t) : t[i].ev = "ret"

\* every invocation on one shared binding, as with a `static mut` slot
SharedFrame(w) == CHOOSE f \in DOMAIN s : TRUE

\* the frame holding the closure's binding `s`: each invocation has its own
Frame(w) == w

\* the two arms of the Result that `parse` returns
ParseResults == {"Ok", "Err"}

\* the invocation has ended: returned to the engine, or aborted the run
Completed(w) == pc[w] \in {"returned", "aborted"}

Init ==
    /\ pc = [w \in {1} |-> "idle"]
    /\ data = [w \in {1} |-> <<>>]
    /\ input = [w \in {1} |-> <<>>]
    /\ s = [w \in {1} |-> None]
    /\ result = [w \in {1} |-> "none"]
    /\ trace = [w \in {1} |-> <<>>]
    /\ expect = [w \in {1} |-> None]

InitPar ==
    /\ pc = [w \in 1..NumWorkers |-> "idle"]
    /\ data = [w \in 1..NumWorkers |-> <<>>]
    /\ input = [w \in 1..NumWorkers |-> <<>>]
    /\ s = [w \in 1..NumWorkers |-> None]
    /\ result = [w \in 1..NumWorkers |-> "none"]
    /\ trace = [w \in 1..NumWorkers |-> <<>>]
    /\ expect = [w \in 1..NumWorkers |-> None]

\* the engine calls the closure with a fresh input of its corpus
Start(w, corpus) ==
    /\ pc[w] = "idle"
    /\ \E b \in corpus :
        /\ data' = [data EXCEPT ![w] = b]
        /\ input' = [input EXCEPT ![w] = b]
    /\ pc' = [pc EXCEPT ![w] = "decode"]
    /\ trace' = [trace EXCEPT ![w] = <<>>]
    /\ expect' = [expect EXCEPT ![w] = None]
    /\ UNCHANGED <<s, result>>

\* the engine calls the closure again with the input it has just run
Replay(w) ==
    /\ pc[w] \in {"returned", "aborted"}
    /\ pc' = [pc EXCEPT ![w] = "decode"]
    /\ expect' = [expect EXCEPT ![w] = Some(trace[w])]
    /\ trace' = [trace EXCEPT ![w] = <<>>]
    /\ UNCHANGED <<data, input, s, result>>

\* the engine takes the worker back after a run
Collect(w) ==
    /\ pc[w] \in {"returned", "aborted"}
    /\ pc' = [pc EXCEPT ![w] = "idle"]
    /\ data' = [data EXCEPT ![w] = <<>>]
    /\ input' = [input EXCEPT ![w] = <<>>]
    /\ trace' = [trace EXCEPT ![w] = <<>>]
    /\ expect' = [expect EXCEPT ![w] = None]
    /\ UNCHANGED <<s, result>>

\* `from_utf8(data).unwrap()`: a decode failure panics
DecodeUnwrap(w) ==
    /\ pc[w] = "decode"
    /\ LET r == from_utf8(data[w])
       IN  /\ trace' = [trace EXCEPT ![w] = Append(@, Event("from_utf8", data[w], "none"))]
           /\ IF r.ok
              THEN /\ s' = [s EXCEPT ![Frame(w)] = Some(r.str)]
                   /\ pc' = [pc EXCEPT ![w] = "call"]
              ELSE /\ s' = s
                   /\ pc' = [pc EXCEPT ![w] = "unwind"]
    /\ UNCHANGED <<data, input, result, expect>>

\* `if data.is_empty() { return; }` ahead of the decode
DecodeSkipEmpty(w) ==
    /\ pc[w] = "decode"
    /\ LET r == from_utf8(data[w])
       IN  /\ trace' = [trace EXCEPT ![w] = Append(@, Event("from_utf8", data[w], "none"))]
           /\ IF r.ok /\ data[w] # <<>>
              THEN /\ s' = [s EXCEPT ![Frame(w)] = Some(r.str)]
                   /\ pc' = [pc EXCEPT ![w] = "call"]
              ELSE /\ s' = s
                   /\ pc' = [pc EXCEPT ![w] = "exit"]
    /\ UNCHANGED <<data, input, result, expect>>

\* a cache of inputs already run: a repeated input is not parsed again
DecodeSeenCache(w) ==
    /\ pc[w] = "decode"
    /\ LET r == from_utf8(data[w])
       IN  /\ trace' = [trace EXCEPT ![w] = Append(@, Event("from_utf8", data[w], "none"))]
           /\ IF r.ok /\ expect[w] = None
              THEN /\ s' = [s EXCEPT ![Frame(w)] = Some(r.str)]
                   /\ pc' = [pc EXCEPT ![w] = "call"]
              ELSE /\ s' = s
                   /\ pc' = [pc EXCEPT ![w] = "exit"]
    /\ UNCHANGED <<data, input, result, expect>>

\* `loop { if let Ok(s) = from_utf8(data) { ...; break } }`: the decode is
\* tried again until it succeeds
DecodeWait(w) ==
    /\ pc[w] = "decode"
    /\ LET r == from_utf8(data[w])
       IN  IF r.ok
           THEN /\ trace' = [trace EXCEPT ![w] = Append(@, Event("from_utf8", data[w], "none"))]
                /\ s' = [s EXCEPT ![Frame(w)] = Some(r.str)]
                /\ pc' = [pc EXCEPT ![w] = "call"]
           ELSE UNCHANGED <<trace, s, pc>>
    /\ UNCHANGED <<data, input, result, expect>>

\* `if let Ok(s) = std::str::from_utf8(data)`: bind s, or skip the body
Decode(w) ==
    /\ pc[w] = "decode"
    /\ LET r == from_utf8(data[w])
       IN  /\ trace' = [trace EXCEPT ![w] = Append(@, Event("from_utf8", data[w], "none"))]
           /\ IF r.ok
              THEN /\ s' = [s EXCEPT ![Frame(w)] = Some(r.str)]
                   /\ pc' = [pc EXCEPT ![w] = "call"]
              ELSE /\ s' = s
                   /\ pc' = [pc EXCEPT ![w] = "exit"]
    /\ UNCHANGED <<data, input, result, expect>>

\* `parse(s)`: the call is made with the bound text
Call(w) ==
    /\ pc[w] = "call"
    /\ s[Frame(w)] # None
    /\ trace' = [trace EXCEPT ![w] = Append(@, Event("parse", s[Frame(w)].some, "none"))]
    /\ pc' = [pc EXCEPT ![w] = "in_parse"]
    /\ UNCHANGED <<data, input, s, result, expect>>

\* the parser returns Ok(..) or Err(..)
ParseReturn(w, r) ==
    /\ pc[w] = "in_parse"
    /\ r \in ParseResults
    /\ result' = [result EXCEPT ![w] = r]
    /\ trace' = [trace EXCEPT ![w] = Append(@, Event("ret", <<>>, r))]
    /\ pc' = [pc EXCEPT ![w] = "discard"]
    /\ UNCHANGED <<data, input, s, expect>>

\* the parser panics or faults: the call does not return
ParseFault(w) ==
    /\ pc[w] = "in_parse"
    /\ trace' = [trace EXCEPT ![w] = Append(@, Event("fault", <<>>, "none"))]
    /\ pc' = [pc EXCEPT ![w] = "unwind"]
    /\ UNCHANGED <<data, input, s, result, expect>>

\* `parse(s).unwrap()`: an Err panics
DiscardUnwrap(w) ==
    /\ pc[w] = "discard"
    /\ result' = [result EXCEPT ![w] = "none"]
    /\ pc' = [pc EXCEPT ![w] = IF result[w] = "Err" THEN "unwind" ELSE "exit"]
    /\ UNCHANGED <<data, input, s, trace, expect>>

\* an Err is answered by calling `parse(s)` again
DiscardRetry(w) ==
    /\ pc[w] = "discard"
    /\ result' = [result EXCEPT ![w] = "none"]
    /\ pc' = [pc EXCEPT ![w] = IF result[w] = "Err" THEN "call" ELSE "exit"]
    /\ UNCHANGED <<data, input, s, trace, expect>>

\* `let _ = ...`: the value is dropped, whichever arm it is
Discard(w) ==
    /\ pc[w] = "discard"
    /\ result' = [result EXCEPT ![w] = "none"]
    /\ pc' = [pc EXCEPT ![w] = "exit"]
    /\ UNCHANGED <<data, input, s, trace, expect>>

\* the closure's end: `s` goes out of scope and the call returns ()
Return(w) ==
    /\ pc[w] = "exit"
    /\ s' = [s EXCEPT ![Frame(w)] = None]
    /\ pc' = [pc EXCEPT ![w] = "returned"]
    /\ UNCHANGED <<data, input, result, trace, expect>>

\* `catch_unwind` around the call: the fault is swallowed
PropagateCaught(w) ==
    /\ pc[w] = "unwind"
    /\ pc' = [pc EXCEPT ![w] = "exit"]
    /\ UNCHANGED <<data, input, s, result, trace, expect>>

\* a fault in `parse` meets no handler in the closure: the run is aborted
Propagate(w) ==
    /\ pc[w] = "unwind"
    /\ s' = [s EXCEPT ![Frame(w)] = None]
    /\ pc' = [pc EXCEPT ![w] = "aborted"]
    /\ UNCHANGED <<data, input, result, trace, expect>>

\* one worker, every input up to MaxLen bytes, any parser
Next ==
    \/ \E w \in Workers : Start(w, Corpus)
    \/ \E w \in Workers : Replay(w)
    \/ \E w \in Workers : Collect(w)
    \/ \E w \in Workers : Decode(w)
    \/ \E w \in Workers : Call(w)
    \/ \E w \in Workers, r \in ParseResults : ParseReturn(w, r)
    \/ \E w \in Workers : ParseFault(w)
    \/ \E w \in Workers : Discard(w)
    \/ \E w \in Workers : Return(w)
    \/ \E w \in Workers : Propagate(w)

Spec == Init /\ [][Next]_vars

\* one worker, every input up to MaxLen bytes, a parser that honours its
\* interface: it always returns, Ok or Err
NextContract ==
    \/ \E w \in Workers : Start(w, Corpus)
    \/ \E w \in Workers : Replay(w)
    \/ \E w \in Workers : Collect(w)
    \/ \E w \in Workers : Decode(w)
    \/ \E w \in Workers : Call(w)
    \/ \E w \in Workers, r \in ParseResults : ParseReturn(w, r)
    \/ \E w \in Workers : Discard(w)
    \/ \E w \in Workers : Return(w)

SpecContract == Init /\ [][NextContract]_vars

\* NumWorkers workers at once on the seed inputs, a parser that honours its
\* interface
NextPar ==
    \/ \E w \in Workers : Start(w, ParCorpus)
    \/ \E w \in Workers : Collect(w)
    \/ \E w \in Workers : Decode(w)
    \/ \E w \in Workers : Call(w)
    \/ \E w \in Workers, r \in ParseResults : ParseReturn(w, r)
    \/ \E w \in Workers : Discard(w)
    \/ \E w \in Workers : Return(w)

SpecPar == InitPar /\ [][NextPar]_vars

\* NumWorkers workers at once on the seed inputs, any parser
NextLive ==
    \/ \E w \in Workers : Start(w, ParCorpus)
    \/ \E w \in Workers : Collect(w)
    \/ \E w \in Workers : Decode(w)
    \/ \E w \in Workers : Call(w)
    \/ \E w \in Workers, r \in ParseResults : ParseReturn(w, r)
    \/ \E w \in Workers : ParseFault(w)
    \/ \E w \in Workers : Discard(w)
    \/ \E w \in Workers : Return(w)
    \/ \E w \in Workers : Propagate(w)

\* a step of the closure's own code in worker w
HarnessStep(w) == Decode(w) \/ Call(w) \/ Discard(w) \/ Return(w) \/ Propagate(w)

\* the parser call of worker w ends, by a return or by a fault
ParserStep(w) == (\E r \in ParseResults : ParseReturn(w, r)) \/ ParseFault(w)

\* the closure is straight-line code on a thread the engine keeps running
SpecLive ==
    /\ InitPar
    /\ [][NextLive]_vars
    /\ \A w \in 1..NumWorkers : WF_vars(HarnessStep(w))

-----------------------------------------------------------------------------
(* Properties *)

\* the calls of `parse` a run on input b makes when nothing else runs:
\* one call with the bytes of b when b is valid UTF-8, none otherwise
AloneArgs(b) == IF WellFormedUtf8(b) THEN <<b>> ELSE <<>>

\* C1 (decode-gating): an invocation on bytes that are not strictly valid
\* UTF-8 never reaches the parser call: it goes from the decode straight to
\* the closure's end and returns normally, with no call of `parse` made.
DecodeGating ==
    \A w \in Workers :
        (pc[w] # "idle" /\ ~WellFormedUtf8(input[w])) =>
            /\ pc[w] \in {"decode", "exit", "returned"}
            /\ ParseArgs(trace[w]) = <<>>
            /\ s[Frame(w)] = None

\* a truncated 4-byte character was run and returned with the decode as
\* the only event
DecodeGatingWitness ==
    \E w \in Workers :
        /\ pc[w] = "returned"
        /\ input[w] = <<240, 191, 191>>
        /\ Len(trace[w]) = 1
        /\ trace[w][1].ev = "from_utf8"

\* C2 (no crash): with a parser that honours its interface, no invocation,
\* whatever its input, panics or ends in an abort: every invocation that
\* ends has returned normally.
NoCrash ==
    \A w \in Workers :
        /\ pc[w] \notin {"unwind", "aborted"}
        /\ ~Faulted(trace[w])
        /\ (Completed(w) => pc[w] = "returned")

\* runs returned normally after a parser Err on the longest character
NoCrashWitness ==
    \E w \in Workers :
        /\ pc[w] = "returned"
        /\ input[w] = <<244, 128, 128, 128>>
        /\ \E i \in 1..Len(trace[w]) : trace[w][i].res = "Err"

\* C3 (oracle): an invocation is unwinding or aborted exactly when the
\* parser call it made faulted: a fault is never swallowed, and the closure
\* aborts neither on a decode failure nor after the parser has returned.
Oracle ==
    \A w \in Workers :
        /\ (pc[w] \in {"unwind", "aborted"}) <=> Faulted(trace[w])
        /\ (Completed(w) /\ ~Faulted(trace[w])) => pc[w] = "returned"
        /\ (Faulted(trace[w]) => ParseArgs(trace[w]) # <<>>)

\* a run was aborted by a parser fault
OracleWitness ==
    \E w \in Workers :
        /\ pc[w] = "aborted"
        /\ Faulted(trace[w])
        /\ input[w] = <<65>>

\* C4 (result discarding): once the parser has returned, Ok or Err, the
\* invocation goes on to return normally; the value is dropped before the
\* closure ends, and the state at the return is the same for both arms.
ResultDiscarded ==
    \A w \in Workers :
        /\ Returned(trace[w]) =>
              /\ pc[w] \in {"discard", "exit", "returned"}
              /\ (pc[w] = "exit" => s[Frame(w)] = Some(input[w]))
              /\ (pc[w] = "returned" => s[Frame(w)] = None)
              /\ data[w] = input[w]
        /\ (result[w] # "none") <=> (pc[w] = "discard")

\* a run returned normally after the parser returned Err
ResultDiscardedWitness ==
    \E w \in Workers :
        /\ pc[w] = "returned"
        /\ result[w] = "none"
        /\ \E i \in 1..Len(trace[w]) : trace[w][i].ev = "ret" /\ trace[w][i].res = "Err"

\* C5 (dispatch): an invocation on strictly valid UTF-8 binds the text to
\* the very bytes of the input and, once past the call, has called `parse`
\* exactly once with them; the text is the encoding of scalar values.
DispatchExact ==
    \A w \in Workers :
        (pc[w] \notin {"idle", "decode"} /\ WellFormedUtf8(input[w])) =>
            /\ (pc[w] = "call" => s[Frame(w)] = Some(input[w]))
            /\ (pc[w] # "call" =>
                    /\ ParseArgs(trace[w]) = <<input[w]>>
                    /\ EncodeAll(Chars(ParseArgs(trace[w])[1])) = input[w])

\* the parser is running on a 4-byte character
DispatchExactWitness ==
    \E w \in Workers :
        /\ pc[w] = "in_parse"
        /\ input[w] = <<240, 191, 191, 191>>
        /\ ParseArgs(trace[w]) = <<input[w]>>
        /\ Chars(input[w]) = <<262143>>

\* C6 (no retained state): with a parser that honours its interface, the
\* calls of `parse` a completed invocation has made depend on its input
\* alone, whatever ran before; a replay of an input makes the same calls as
\* the run before it and returns normally as it did; and outside an
\* invocation the closure holds nothing: no binding, no undropped value.
NoRetainedState ==
    \A w \in Workers :
        /\ Completed(w) =>
              /\ pc[w] = "returned"
              /\ ParseArgs(trace[w]) = AloneArgs(input[w])
        /\ (Completed(w) /\ expect[w] # None) =>
              /\ ParseArgs(trace[w]) = ParseArgs(expect[w].some)
              /\ Faulted(trace[w]) = Faulted(expect[w].some)
        /\ (pc[w] \in {"idle", "decode", "returned"}) =>
              /\ s[Frame(w)] = None
              /\ result[w] = "none"

\* an input that is parsed was run twice in a row
NoRetainedStateWitness ==
    \E w \in Workers :
        /\ pc[w] = "returned"
        /\ expect[w] # None
        /\ input[w] = <<194, 128>>
        /\ ParseArgs(trace[w]) = <<input[w]>>
        /\ ParseArgs(expect[w].some) = <<input[w]>>

\* a step that leaves worker w's position alone leaves all of w's own
\* state alone
OwnStateUntouched ==
    \A w \in Workers :
        pc'[w] = pc[w] =>
            /\ data'[w] = data[w]
            /\ input'[w] = input[w]
            /\ s'[Frame(w)] = s[Frame(w)]
            /\ result'[w] = result[w]
            /\ trace'[w] = trace[w]

\* every invocation, running or ended, stands as it would running alone
AsAlone ==
    \A w \in Workers :
        /\ pc[w] \in {"call", "in_parse", "discard"} => s[Frame(w)] = Some(input[w])
        /\ pc[w] \in {"in_parse", "discard"} => ParseArgs(trace[w]) = AloneArgs(input[w])
        /\ Completed(w) =>
              /\ pc[w] = "returned"
              /\ ParseArgs(trace[w]) = AloneArgs(input[w])
        /\ data[w] = input[w]

\* C7 (parallel invocation): with workers interleaved in any order on the
\* same or different inputs, every invocation calls the parser (or not) with
\* the text it would call it with running alone and returns normally, and
\* no step of one invocation changes the state of another.
ParallelIndependence == []AsAlone /\ [][OwnStateUntouched]_vars

\* two workers are in the parser at once, each on its own input
ParallelIndependenceWitness ==
    \E w1, w2 \in Workers :
        /\ w1 # w2
        /\ pc[w1] = "in_parse" /\ input[w1] = <<65>>
        /\ pc[w2] = "in_parse" /\ input[w2] = <<194, 128>>

\* the invocation of worker w that stands at the decode ends
Completes(w) == (pc[w] = "decode") ~> Completed(w)

\* the invocation of worker w on bytes that do not decode returns
DecodeFailureReturns(w) ==
    (pc[w] = "decode" /\ ~WellFormedUtf8(input[w])) ~> (pc[w] = "returned")

\* C8 (termination): if every parser call made ends, every invocation
\* ends; and an invocation whose input does not decode returns whatever
\* the parser does.
Termination ==
    /\ (\A w \in 1..NumWorkers : WF_vars(ParserStep(w)))
          => (\A w \in 1..NumWorkers : Completes(w))
    /\ \A w \in 1..NumWorkers : DecodeFailureReturns(w)

\* one worker's invocation has ended while another's parser call has not
TerminationWitness ==
    \E w1, w2 \in Workers :
        /\ pc[w1] = "returned" /\ input[w1] = <<194>>
        /\ pc[w2] = "in_parse"

\* C9 (empty input): with a parser that honours its interface, an
\* invocation on the empty byte sequence decodes to the empty text, calls
\* `parse` once with it and returns normally; it is never skipped.
EmptyInput ==
    \A w \in Workers :
        (input[w] = <<>> /\ pc[w] \notin {"idle", "decode"}) =>
            /\ pc[w] \in {"call", "in_parse", "discard", "exit", "returned"}
            /\ (pc[w] = "call" => s[Frame(w)] = Some(<<>>))
            /\ (pc[w] # "call" => ParseArgs(trace[w]) = << <<>> >>)

\* the run on the empty input has returned after one parser call
EmptyInputWitness ==
    \E w \in Workers :
        /\ pc[w] = "returned"
        /\ input[w] = <<>>
        /\ Len(trace[w]) = 3
        /\ trace[w][2] = Event("parse", <<>>, "none")

\* C10 (ordering, single dispatch): in an invocation the decode is the
\* first event and happens once, `parse` is called at most once, and exactly
\* once by the time the invocation is past the call if the decode succeeded
\* (never otherwise); when the invocation ends the buffer holds the bytes
\* the engine handed over.
OrderSingleDispatch ==
    \A w \in Workers :
        LET t == trace[w]
            decodes == {i \in 1..Len(t) : t[i].ev = "from_utf8"}
            calls == {i \in 1..Len(t) : t[i].ev = "parse"}
        IN  /\ Cardinality(calls) <= 1
            /\ decodes \subseteq {1}
            /\ (calls # {} => decodes = {1})
            /\ (pc[w] \in {"exit", "returned", "unwind", "aborted"} =>
                    /\ decodes = {1}
                    /\ (calls # {}) <=> from_utf8(input[w]).ok)
            /\ (Completed(w) => data[w] = input[w])

\* a run ended after the decode, one call and an Err from the parser
OrderSingleDispatchWitness ==
    \E w \in Workers :
        /\ pc[w] = "returned"
        /\ Len(trace[w]) = 3
        /\ trace[w][1].ev = "from_utf8"
        /\ trace[w][2].ev = "parse"
        /\ trace[w][3].res = "Err"

=============================================================================
